---- MODULE Spec2Model ----
(***************************************************************************)
(* A model of jskit-learn's resampling helpers (cross_validation.js:       *)
(* train_test_split, cross_validation_split, cross_validate_score) and of  *)
(* its transaction encoder and rule summarizer (calc.js: getTransactions,  *)
(* assocationRuleLearning).                                                *)
(***************************************************************************)
EXTENDS Integers, Sequences, FiniteSets, Bags, TLC

\* ------------------------------------------------------------------ bounds

\* Longest dataset passed to the splitters.
MaxLen == 3
\* How many times in a row the caller repeats the same call.
MaxCalls == 2
\* Iterations of cross_validation_split's for-in loop that are explored.
MaxIter == 3
\* A folds option so large that dataset.length / folds is below 1e-6.
HugeFolds == 2000000
\* Period of the stand-in for the mt19937 engine.
RngMod == 31

\* Below this magnitude JavaScript prints a number in exponent notation
\* ("5e-7"), so that parseInt reads only the mantissa's integer part.
ExpNotationInverse == 1000000

XValues == {1, 2}
Seeds == {0, 1, 5}
TrainSizeTenths == {0, 5, 8, 10, 15}
TestSizeTenths == {0, 2, 5}
FoldsValues == (-2 .. MaxIter) \cup {HugeFolds}

\* ------------------------------------------------------------------- state

VARIABLES
  heap,           \* the two arrays: "caller" is the caller's dataset, "copy" the working copy
  args,           \* the arguments the caller passes (the same at every call)
  engine,         \* state of the most recently created random engine
  pc,             \* where the program is
  folds,          \* cross_validation_split: const folds
  foldsize,       \* cross_validation_split: const foldsize
  iter,           \* cross_validation_split: for-in iterations done
  dataset_split,  \* cross_validation_split: const dataset_split
  calls,          \* what each finished call returned, oldest first
  classifier,     \* cross_validate_score: what the classifier was last trained on
  log,            \* cross_validate_score: the calls made on the classifier, in order
  x_test_matrix,  \* cross_validate_score: const x_test_matrix
  actuals,        \* cross_validate_score: const actuals
  prediction_accuracies, \* cross_validate_score: the map's results so far
  data,           \* getTransactions: the rows passed, each the list of its cell values
  encoded,        \* getTransactions: what the finished calls returned
  promise,        \* assocationRuleLearning: the returned promise's state and value
  arl_pc,         \* assocationRuleLearning: where the call and its callbacks are
  resolve_calls,  \* assocationRuleLearning: how often resolve was called
  reject_calls,   \* assocationRuleLearning: how often reject was called
  thrown,         \* assocationRuleLearning: whether the call itself threw
  failure,        \* assocationRuleLearning: what went wrong, if anything
  mined           \* assocationRuleLearning: what the miner's promise settled with

splitVars == <<folds, foldsize, iter, dataset_split>>
scoreVars == <<classifier, log, x_test_matrix, actuals, prediction_accuracies>>
cvVars == <<heap, args, engine, pc, calls, splitVars, scoreVars>>
arlVars == <<promise, arl_pc, resolve_calls, reject_calls, thrown, failure, mined>>
calcVars == <<data, encoded, arlVars>>
vars == <<cvVars, calcVars>>

\* ------------------------------------------------------------ JavaScript

Abs(x) == IF x < 0 THEN -x ELSE x
Sgn(x) == IF x < 0 THEN -1 ELSE 1

\* First significant decimal digit of num/den, for 0 < num/den < 1.
RECURSIVE LeadingDigit(_, _)
LeadingDigit(num, den) ==
  IF num >= den THEN num \div den ELSE LeadingDigit(num * 10, den)

\* parseInt(x, 10) of the number x = num/den (den > 0): x is converted to a
\* string and the leading integer is read, which truncates toward zero, except
\* that a magnitude below 1e-6 prints as "<d>.<ddd>e-<n>" and reads as <d>.
\* (Magnitudes of 1e21 and more are outside the model.)
ParseIntRatio(num, den) ==
  LET a == Abs(num)
  IN IF a = 0 THEN 0
     ELSE IF a * ExpNotationInverse < den THEN Sgn(num) * LeadingDigit(a, den)
     ELSE Sgn(num) * (a \div den)

\* The result of indexing past an array's end, or of [][0].
Undefined == [id |-> 0, X |-> 0, Y |-> 0]

\* arr.splice(index, 1)[0]: the removed element, undefined if there is none.
SpliceTaken(arr, index) ==
  IF index + 1 <= Len(arr) THEN arr[index + 1] ELSE Undefined

\* A splice that removes nothing.
SpliceKeepsAll(arr, index) == arr

\* arr after arr.splice(index, 1).
SpliceRest(arr, index) ==
  IF index + 1 <= Len(arr)
  THEN SubSeq(arr, 1, index) \o SubSeq(arr, index + 2, Len(arr))
  ELSE arr

\* ------------------------------------------------------------- random-js

\* An engine that is never re-seeded: the one left by the previous call.
StaleEngine(random_state) == engine

\* Random.engines.mt19937().seed(options.random_state || 0): a fresh engine
\* whose state is a function of the seed alone.
NewEngine(random_state) == random_state % RngMod

\* One step of the engine (a small congruential generator stands for mt19937).
EngineStep(eng) == (eng * 7 + 3) % RngMod

\* Random.integer(min, max)(engine): min when the range is empty or a single
\* value (the engine is not consulted), else a value of min..max drawn from
\* the engine, which advances.
RandomInteger(min, max, eng) ==
  IF max - min <= 0
  THEN [value |-> min, engine |-> eng]
  ELSE [value |-> min + (EngineStep(eng) % (max - min + 1)), engine |-> EngineStep(eng)]

\* An upper limit one past the last index.
UpperIndexPastEnd(arr) == Len(arr)

\* The upper limit of a draw: dataset_copy.length - 1.
UpperIndex(arr) == Len(arr) - 1

\* while (acc.length < num/den) { index = Random.integer(0, arr.length - 1)(engine);
\*                                acc.push(arr.splice(index, 1)[0]); }
RECURSIVE DrawUntil(_, _, _, _, _)
DrawUntil(arr, eng, acc, num, den) ==
  IF Len(acc) * den < num
  THEN LET draw == RandomInteger(0, UpperIndex(arr), eng)
       IN DrawUntil(SpliceRest(arr, draw.value), draw.engine,
                    Append(acc, SpliceTaken(arr, draw.value)), num, den)
  ELSE [arr |-> arr, engine |-> eng, out |-> acc]

\* ------------------------------------------------------ train_test_split

\* const dataset_copy = dataset: the working array is the caller's array.
AliasRef == "caller"

\* const dataset_copy = [].concat(dataset): the working array is a new array.
ConcatCopyRef == "copy"

\* The heap once the working array has been set up from the caller's.
WithCopy(h) == [h EXCEPT ![ConcatCopyRef] = h.caller]

\* train_size_length as the ratio <<numerator, 10>>.
TrainSizeLength(o, n) ==
  IF o.train_size # 0
  THEN o.train_size * n
  ELSE (10 - (IF o.test_size # 0 THEN o.test_size ELSE 2)) * n

\* train_size, as a ratio <<numerator, denominator>>.
TrainSize(o, n) ==
  IF o.parse_int_train_size
  THEN <<ParseIntRatio(TrainSizeLength(o, n), 10), 1>>
  ELSE <<TrainSizeLength(o, n), 10>>

\* The whole of train_test_split(dataset, o) on heap h.
TrainTestSplitRun(h, o) ==
  LET eng == NewEngine(o.random_state)
      ts == TrainSize(o, Len(h.caller))
      h1 == WithCopy(h)
      loop == DrawUntil(h1[ConcatCopyRef], eng, <<>>, ts[1], ts[2])
      h2 == [h1 EXCEPT ![ConcatCopyRef] = loop.arr]
  IN [heap |-> h2, engine |-> loop.engine,
      ret |-> [train |-> loop.out, test |-> h2[ConcatCopyRef],
               as_array |-> o.return_array, threw |-> FALSE]]

TrainTestSplit ==
  /\ pc = "idle"
  /\ args.fn = "train_test_split"
  /\ Len(calls) < MaxCalls
  /\ LET r == TrainTestSplitRun(heap, args)
     IN /\ heap' = r.heap
        /\ engine' = r.engine
        /\ calls' = Append(calls, r.ret)
  /\ UNCHANGED <<calcVars, args, pc, splitVars, scoreVars>>

\* ------------------------------------------------- cross_validation_split

\* The length of lodash.range(folds): 0, 1, ..., folds - 1 for a positive
\* integer, 0, -1, ..., folds + 1 for a negative one.
RangeLength(k) == Abs(k)

\* options.folds || 3
FoldsOrDefault(k) == IF k # 0 THEN k ELSE 3

\* parseInt(dataset.length / (folds || 3), 10)
FoldSize(n, k) == ParseIntRatio(n * Sgn(FoldsOrDefault(k)), Abs(FoldsOrDefault(k)))

\* Lines 71-75: the engine, folds, dataset_split, dataset_copy and foldsize.
SplitEnter(k, random_state) ==
  /\ engine' = NewEngine(random_state)
  /\ folds' = FoldsOrDefault(k)
  /\ dataset_split' = <<>>
  /\ heap' = WithCopy(heap)
  /\ foldsize' = FoldSize(Len(heap.caller), FoldsOrDefault(k))
  /\ iter' = 0
  /\ pc' = "for"

\* The caller calls cross_validation_split(dataset, {folds, random_state}).
CrossValidationSplit ==
  /\ pc = "idle"
  /\ args.fn = "cross_validation_split"
  /\ Len(calls) < MaxCalls
  /\ SplitEnter(args.folds, args.random_state)
  /\ UNCHANGED <<calcVars, args, calls, scoreVars>>

\* One iteration of the for-in loop over range(folds): lines 77-82.
SplitFold ==
  /\ pc = "for"
  /\ iter < RangeLength(folds)
  /\ iter < MaxIter
  /\ LET loop == DrawUntil(heap[ConcatCopyRef], engine, <<>>, foldsize, 1)
     IN /\ heap' = [heap EXCEPT ![ConcatCopyRef] = loop.arr]
        /\ engine' = loop.engine
        /\ dataset_split' = Append(dataset_split, loop.out)
  /\ iter' = iter + 1
  /\ UNCHANGED <<calcVars, args, pc, calls, folds, foldsize, scoreVars>>

\* return dataset_split, to the caller or to cross_validate_score (line 104).
SplitReturn ==
  /\ pc = "for"
  /\ iter = RangeLength(folds)
  /\ IF args.fn = "cross_validation_split"
     THEN /\ calls' = Append(calls, [folds |-> dataset_split, threw |-> FALSE])
          /\ pc' = "idle"
     ELSE /\ calls' = calls
          /\ pc' = "test_matrices"
  /\ UNCHANGED <<calcVars, heap, args, engine, splitVars, scoreVars>>

\* --------------------------------------------------- cross_validate_score

\* new DataSet(rows).columnMatrix([['X']]): one row <<x>> per data row.
ColumnMatrixX(rows) == [i \in 1 .. Len(rows) |-> <<rows[i].X>>]

\* new DataSet(rows).columnMatrix([['Y']]): one row <<y>> per data row.
ColumnMatrixY(rows) == [i \in 1 .. Len(rows) |-> <<rows[i].Y>>]

\* util.pivotVector(m)[0]: the first column of m as a vector.
PivotFirst(m) == [i \in 1 .. Len(m) |-> m[i][1]]

\* (use_matrix) ? new Matrix(m) : m
MaybeMatrix(use_matrix, m) == [wrapped |-> use_matrix, data |-> m]

NoMatrix == [wrapped |-> FALSE, data |-> <<>>]

Untrained == [x |-> NoMatrix, y |-> NoMatrix]

\* classifier.train(x, y): the classifier now rests on x and y alone.
ClassifierTrain(cls, x, y) == [x |-> x, y |-> y]

\* classifier.predict(x_test): for each test row the label of the first
\* training row with the same features, 0 when there is none.
ClassifierPredict(cls, x_test) ==
  [j \in 1 .. Len(x_test) |->
     LET hits == {i \in 1 .. Len(cls.x.data) : cls.x.data[i] = x_test[j]}
     IN IF hits = {} THEN 0
        ELSE cls.y.data[CHOOSE i \in hits : \A h \in hits : i <= h][1]]

\* ConfusionMatrix.fromLabels(actuals, estimates).getAccuracy(), as the pair
\* of the number of matching labels and the number of labels.
GetAccuracy(act, est) ==
  [defined |-> TRUE,
   correct |-> Cardinality({j \in 1 .. Len(act) : j <= Len(est) /\ act[j] = est[j]}),
   total |-> Len(act)]

\* What a callback that returns nothing leaves in the mapped array.
UndefinedScore == [defined |-> FALSE, correct |-> 0, total |-> 0]

TrainEvent(x, y) == [op |-> "train", x |-> x, y |-> y]
PredictEvent(x) == [op |-> "predict", x |-> [wrapped |-> FALSE, data |-> x], y |-> NoMatrix]

\* The callback of folds.map, lines 112-127, on one fold.
FoldCallback(fold, o, cls, x_test, act) ==
  LET x_train == MaybeMatrix(o.use_train_x_matrix, ColumnMatrixX(fold))
      y_train == MaybeMatrix(o.use_train_y_matrix, ColumnMatrixY(fold))
      trained == ClassifierTrain(cls, x_train, y_train)
  IN IF o.regression
     THEN [ret |-> UndefinedScore, classifier |-> cls, events |-> <<>>]
     ELSE [ret |-> GetAccuracy(act, ClassifierPredict(trained, x_test)),
           classifier |-> trained,
           events |-> <<TrainEvent(x_train, y_train), PredictEvent(x_test)>>]

\* The caller calls cross_validate_score(options): lines 89-107, up to the
\* call of cross_validation_split with config.folds and config.random_state.
CrossValidateScore ==
  /\ pc = "idle"
  /\ args.fn = "cross_validate_score"
  /\ Len(calls) < MaxCalls
  /\ SplitEnter(args.folds, args.random_state)
  /\ prediction_accuracies' = <<>>
  /\ log' = <<>>
  /\ UNCHANGED <<calcVars, args, calls, classifier, x_test_matrix, actuals>>

\* Lines 108-111: the test matrices and the actuals, from config.testingset.
TestMatrices ==
  /\ pc = "test_matrices"
  /\ x_test_matrix' = ColumnMatrixX(args.testingset)
  /\ actuals' = PivotFirst(ColumnMatrixY(args.testingset))
  /\ pc' = "map"
  /\ UNCHANGED <<calcVars, heap, args, engine, calls, splitVars, classifier, log,
                 prediction_accuracies>>

\* folds.map calls the callback on the next fold.
MapFold ==
  /\ pc = "map"
  /\ Len(prediction_accuracies) < Len(dataset_split)
  /\ LET cb == FoldCallback(dataset_split[Len(prediction_accuracies) + 1], args,
                            classifier, x_test_matrix, actuals)
     IN /\ prediction_accuracies' = Append(prediction_accuracies, cb.ret)
        /\ classifier' = cb.classifier
        /\ log' = log \o cb.events
  /\ UNCHANGED <<calcVars, heap, args, engine, pc, calls, splitVars, x_test_matrix, actuals>>

\* return prediction_accuracies (line 128).
ScoreReturn ==
  /\ pc = "map"
  /\ Len(prediction_accuracies) = Len(dataset_split)
  /\ calls' = Append(calls, [scores |-> prediction_accuracies, threw |-> FALSE])
  /\ pc' = "idle"
  /\ UNCHANGED <<calcVars, heap, args, engine, splitVars, scoreVars>>

\* ------------------------------------------------------- getTransactions

\* Longest data passed to getTransactions, in rows.
MaxRows == 2
\* Most cells of a row.
MaxCells == 2
\* Most itemsets the miner returns.
MaxItemsets == 2

Cells == {"", "0", "1", "a"}

\* A Map with no entry.
NewMap == [k \in {} |-> ""]

\* map.set(k, v)
MapSet(m, k, v) == [x \in DOMAIN m \cup {k} |-> IF x = k THEN v ELSE m[x]]

\* Whether map.get(k) is truthy: k has an entry and it is not the empty string.
GetIsTruthy(m, k) == k \in DOMAIN m /\ m[k] # ""

SeqRange(q) == {q[i] : i \in 1 .. Len(q)}

\* values.add(csvVal) for every cell of the row: a Set keeps insertion order.
RECURSIVE AddCells(_, _)
AddCells(values, cells) ==
  IF cells = <<>> THEN values
  ELSE AddCells(IF Head(cells) \in SeqRange(values) THEN values
                ELSE Append(values, Head(cells)),
                Tail(cells))

\* values.forEach(val => { if (!valuesMap.get(val)) { index = parseInt(size / 2);
\*   valuesMap.set(val, index.toString()); valuesMap.set(index.toString(), val); } })
RECURSIVE AssignTokens(_, _)
AssignTokens(valuesMap, values) ==
  IF values = <<>> THEN valuesMap
  ELSE IF GetIsTruthy(valuesMap, Head(values))
       THEN AssignTokens(valuesMap, Tail(values))
       ELSE LET index == ParseIntRatio(Cardinality(DOMAIN valuesMap), 2)
                token == ToString(index)
            IN AssignTokens(MapSet(MapSet(valuesMap, Head(values), token),
                                   token, Head(values)),
                            Tail(values))

\* Object.values(csvRow).map(cell => valuesMap.get(cell)).filter(v => v !== undefined)
RECURSIVE EncodeRow(_, _)
EncodeRow(valuesMap, cells) ==
  IF cells = <<>> THEN <<>>
  ELSE (IF Head(cells) \in DOMAIN valuesMap THEN <<valuesMap[Head(cells)]>> ELSE <<>>)
       \o EncodeRow(valuesMap, Tail(cells))

\* data.map(csvRow => ...) over the rows left, from the state st reached so far.
RECURSIVE ScanRows(_, _)
ScanRows(st, rows) ==
  IF rows = <<>> THEN st
  ELSE LET values == AddCells(st.values, Head(rows))
           valuesMap == AssignTokens(st.valuesMap, values)
       IN ScanRows([values |-> values, valuesMap |-> valuesMap,
                    transactions |->
                      Append(st.transactions, EncodeRow(valuesMap, Head(rows)))],
                   Tail(rows))

\* transactions.filter(csvRow => csvRow.length)
RECURSIVE NonEmptyOnly(_)
NonEmptyOnly(transactions) ==
  IF transactions = <<>> THEN <<>>
  ELSE (IF Head(transactions) # <<>> THEN <<Head(transactions)>> ELSE <<>>)
       \o NonEmptyOnly(Tail(transactions))

\* The whole of getTransactions(rows, {exludeEmptyTranscations}).
GetTransactionsRun(rows, exludeEmptyTranscations) ==
  LET st == ScanRows([values |-> <<>>, valuesMap |-> NewMap, transactions |-> <<>>], rows)
  IN [values |-> st.values, valuesMap |-> st.valuesMap,
      transactions |-> IF exludeEmptyTranscations
                       THEN NonEmptyOnly(st.transactions)
                       ELSE st.transactions]

GetTransactions ==
  /\ args.fn = "getTransactions"
  /\ Len(encoded) < MaxCalls
  /\ \E exclude \in BOOLEAN :
       encoded' = Append(encoded, GetTransactionsRun(data, exclude))
  /\ UNCHANGED <<cvVars, data, arlVars>>

\* ------------------------------------------------ assocationRuleLearning

\* The label of an item no entry of valuesMap names (undefined).
NoLabel == "undefined"

RECURSIVE Labels(_, _)
Labels(valuesMap, items) ==
  IF items = <<>> THEN <<>>
  ELSE <<IF Head(items) \in DOMAIN valuesMap THEN valuesMap[Head(items)] ELSE NoLabel>>
       \o Labels(valuesMap, Tail(items))

\* .map(itemset => ({items_labels, items, support, support_percent})), the
\* percentage as the pair <<support, transactions.length>>.
RECURSIVE Labelled(_, _, _)
Labelled(itemsets, valuesMap, n) ==
  IF itemsets = <<>> THEN <<>>
  ELSE <<[items_labels |-> Labels(valuesMap, Head(itemsets).items),
          items |-> Head(itemsets).items,
          support |-> Head(itemsets).support,
          support_percent |-> <<Head(itemsets).support, n>>]>>
       \o Labelled(Tail(itemsets), valuesMap, n)

\* .filter(itemset => itemset.items.length > 1)
RECURSIVE LongerThanOne(_)
LongerThanOne(itemsets) ==
  IF itemsets = <<>> THEN <<>>
  ELSE (IF Len(Head(itemsets).items) > 1 THEN <<Head(itemsets)>> ELSE <<>>)
       \o LongerThanOne(Tail(itemsets))

\* One itemset put into a list sorted by descending support, after its equals.
RECURSIVE InsertBySupport(_, _)
InsertBySupport(sorted, itemset) ==
  IF sorted = <<>> THEN <<itemset>>
  ELSE IF Head(sorted).support >= itemset.support
       THEN <<Head(sorted)>> \o InsertBySupport(Tail(sorted), itemset)
       ELSE <<itemset>> \o sorted

\* .sort((a, b) => b.support - a.support)
RECURSIVE SortBySupport(_)
SortBySupport(itemsets) ==
  IF itemsets = <<>> THEN <<>>
  ELSE InsertBySupport(SortBySupport(SubSeq(itemsets, 1, Len(itemsets) - 1)),
                       itemsets[Len(itemsets)])

\* What the then-callback passes to resolve, lines 104-116.
Resolution(results, o) ==
  IF o.summary
  THEN SortBySupport(LongerThanOne(Labelled(results.itemsets, o.valuesMap,
                                             Len(o.transactions))))
  ELSE results.itemsets

\* Whether the then-callback throws: with summary, results.itemsets.map needs
\* results to hold a list of itemsets.
PostProcessingThrows(results, o) == o.summary /\ ~results.wellformed

\* resolve(v) and reject(e): only the first call settles the promise.
Settle(state, v) ==
  promise' = IF promise.state = "pending" THEN [state |-> state, value |-> v] ELSE promise

\* A rejected then-promise with no handler: nothing more runs.
NoHandler == "done"

\* .catch(reject), line 118: where control goes when the promise returned by
\* .then(...) is rejected.
OnThenRejected == "catch"

\* The call: new Promise's executor, lines 94-121, run to its end.
AssocationRuleLearning ==
  /\ args.fn = "assocationRuleLearning"
  /\ arl_pc = "idle"
  /\ \/ \* new FPGrowth(config.support) throws: caught at line 119, reject(e)
        /\ Settle("rejected", <<>>)
        /\ reject_calls' = reject_calls + 1
        /\ failure' = "construct"
        /\ arl_pc' = "done"
     \/ \* fpgrowth.exec(transactions) throws: caught at line 119, reject(e)
        /\ Settle("rejected", <<>>)
        /\ reject_calls' = reject_calls + 1
        /\ failure' = "start"
        /\ arl_pc' = "done"
     \/ \* exec returns its promise; the handlers are attached
        /\ arl_pc' = "mining"
        /\ UNCHANGED <<promise, reject_calls, failure>>
  /\ thrown' = FALSE
  /\ UNCHANGED <<cvVars, data, encoded, resolve_calls, mined>>

Itemsets ==
  {[items |-> <<"0">>, support |-> 2], [items |-> <<"0", "1">>, support |-> 1],
   [items |-> <<"1", "2">>, support |-> 2]}

ItemsetLists == UNION {[1 .. n -> Itemsets] : n \in 0 .. MaxItemsets}

\* The miner's promise is fulfilled, with a list of itemsets or with a result
\* that holds none.
MinerFulfils ==
  /\ arl_pc = "mining"
  /\ \E r \in [itemsets : ItemsetLists, wellformed : {TRUE}]
            \cup [itemsets : {<<>>}, wellformed : {FALSE}] :
       mined' = r
  /\ arl_pc' = "then"
  /\ UNCHANGED <<cvVars, data, encoded, promise, resolve_calls, reject_calls, thrown, failure>>

\* The miner's promise is rejected: the then-promise is rejected with it.
MinerRejects ==
  /\ arl_pc = "mining"
  /\ failure' = "mining"
  /\ arl_pc' = OnThenRejected
  /\ UNCHANGED <<cvVars, data, encoded, promise, resolve_calls, reject_calls, thrown, mined>>

\* The then-callback, lines 103-117.
ThenCallback ==
  /\ arl_pc = "then"
  /\ IF PostProcessingThrows(mined, args)
     THEN /\ failure' = "postprocess"
          /\ arl_pc' = OnThenRejected
          /\ UNCHANGED <<promise, resolve_calls>>
     ELSE /\ Settle("resolved", Resolution(mined, args))
          /\ resolve_calls' = resolve_calls + 1
          /\ arl_pc' = "done"
          /\ UNCHANGED failure
  /\ UNCHANGED <<cvVars, data, encoded, reject_calls, thrown, mined>>

\* The catch-callback: reject, line 118.
CatchCallback ==
  /\ arl_pc = "catch"
  /\ Settle("rejected", <<>>)
  /\ reject_calls' = reject_calls + 1
  /\ arl_pc' = "done"
  /\ UNCHANGED <<cvVars, data, encoded, resolve_calls, thrown, failure, mined>>

\* ------------------------------------------------------------------ inputs

Row(i, x) == [id |-> i, X |-> x, Y |-> x % 2]

Datasets ==
  UNION {{[i \in 1 .. n |-> Row(i, xs[i])] : xs \in [1 .. n -> XValues]} : n \in 0 .. MaxLen}

Testingsets ==
  {<<Row(1, 1), Row(2, 2)>>, <<Row(1, 2), Row(2, 2), Row(3, 1)>>}

\* train_test_split(dataset, options)
TrainTestSplitArgs ==
  [fn : {"train_test_split"}, random_state : Seeds, train_size : TrainSizeTenths,
   test_size : TestSizeTenths, parse_int_train_size : BOOLEAN,
   return_array : BOOLEAN, folds : {0}, regression : {FALSE},
   use_train_x_matrix : {TRUE}, use_train_y_matrix : {FALSE}, testingset : {<<>>}]

\* cross_validation_split(dataset, options)
CrossValidationSplitArgs ==
  [fn : {"cross_validation_split"}, random_state : Seeds, train_size : {0},
   test_size : {0}, parse_int_train_size : {TRUE},
   return_array : {FALSE}, folds : FoldsValues, regression : {FALSE},
   use_train_x_matrix : {TRUE}, use_train_y_matrix : {FALSE}, testingset : {<<>>}]

\* cross_validate_score(options)
CrossValidateScoreArgs ==
  [fn : {"cross_validate_score"}, random_state : Seeds, train_size : {0},
   test_size : {0}, parse_int_train_size : {TRUE},
   return_array : {FALSE}, folds : FoldsValues \ {HugeFolds}, regression : BOOLEAN,
   use_train_x_matrix : BOOLEAN, use_train_y_matrix : BOOLEAN,
   testingset : Testingsets]

CalcIdle ==
  /\ data = <<>>
  /\ encoded = <<>>
  /\ promise = [state |-> "pending", value |-> <<>>]
  /\ arl_pc = "idle"
  /\ resolve_calls = 0
  /\ reject_calls = 0
  /\ thrown = FALSE
  /\ failure = "none"
  /\ mined = [itemsets |-> <<>>, wellformed |-> TRUE]

Init ==
  /\ CalcIdle
  /\ heap \in [caller : Datasets, copy : {<<>>}]
  /\ args \in TrainTestSplitArgs \cup CrossValidationSplitArgs \cup CrossValidateScoreArgs
  /\ engine = 0
  /\ pc = "idle"
  /\ folds = 0
  /\ foldsize = 0
  /\ iter = 0
  /\ dataset_split = <<>>
  /\ calls = <<>>
  /\ classifier = Untrained
  /\ log = <<>>
  /\ x_test_matrix = <<>>
  /\ actuals = <<>>
  /\ prediction_accuracies = <<>>

Next ==
  \/ TrainTestSplit
  \/ CrossValidationSplit
  \/ SplitFold
  \/ SplitReturn
  \/ CrossValidateScore
  \/ TestMatrices
  \/ MapFold
  \/ ScoreReturn

Spec == Init /\ [][Next]_vars

\* The rows getTransactions is given.
Rows == UNION {[1 .. n -> Cells] : n \in 1 .. MaxCells}
DataSets == UNION {[1 .. n -> Rows] : n \in 0 .. MaxRows}

LabelMap == MapSet(MapSet(MapSet(MapSet(NewMap, "a", "0"), "0", "a"), "b", "1"), "1", "b")

\* getTransactions(data, options)
GetTransactionsArgs == [fn : {"getTransactions"}]

\* assocationRuleLearning(transactions, options)
AssocationRuleLearningArgs ==
  [fn : {"assocationRuleLearning"},
   transactions : {<<>>, <<<<"0", "1">>>>, <<<<"0", "1">>, <<"0">>>>},
   summary : BOOLEAN,
   valuesMap : {NewMap, LabelMap}]

InitCalc ==
  /\ heap = [caller |-> <<>>, copy |-> <<>>]
  /\ engine = 0
  /\ pc = "idle"
  /\ folds = 0
  /\ foldsize = 0
  /\ iter = 0
  /\ dataset_split = <<>>
  /\ calls = <<>>
  /\ classifier = Untrained
  /\ log = <<>>
  /\ x_test_matrix = <<>>
  /\ actuals = <<>>
  /\ prediction_accuracies = <<>>
  /\ encoded = <<>>
  /\ promise = [state |-> "pending", value |-> <<>>]
  /\ arl_pc = "idle"
  /\ resolve_calls = 0
  /\ reject_calls = 0
  /\ thrown = FALSE
  /\ failure = "none"
  /\ mined = [itemsets |-> <<>>, wellformed |-> TRUE]

\* getTransactions is called on some data.
InitEncode ==
  /\ InitCalc
  /\ args \in GetTransactionsArgs
  /\ data \in DataSets

NextEncode == GetTransactions

SpecEncode == InitEncode /\ [][NextEncode]_vars

\* assocationRuleLearning is called on some transactions.
InitRules ==
  /\ InitCalc
  /\ args \in AssocationRuleLearningArgs
  /\ data = <<>>

NextRules ==
  \/ AssocationRuleLearning
  \/ MinerFulfils
  \/ MinerRejects
  \/ ThenCallback
  \/ CatchCallback

SpecRules == InitRules /\ [][NextRules]_vars

\* ------------------------------------------------------------- properties

SeqToBag(s) ==
  [x \in {s[i] : i \in 1 .. Len(s)} |-> Cardinality({i \in 1 .. Len(s) : s[i] = x})]

\* train_test_split called with {random_state: S} and nothing else.
OnlySeedGiven ==
  /\ args.fn = "train_test_split"
  /\ args.train_size = 0
  /\ args.test_size = 0
  /\ args.parse_int_train_size
  /\ ~args.return_array

\* C1: train_test_split(D, {random_state: S}) returns train and test whose
\* lengths add up to D's and whose rows together are exactly the rows of D,
\* each as often as in D.
TrainTestPartition ==
  OnlySeedGiven =>
    \A c \in 1 .. Len(calls) :
      /\ Len(calls[c].train) + Len(calls[c].test) = Len(heap.caller)
      /\ SeqToBag(calls[c].train) (+) SeqToBag(calls[c].test) = SeqToBag(heap.caller)

\* A full-length dataset has been split into a non-empty train and test, and
\* the draw has not simply kept the input order.
TrainTestPartitionWitness ==
  /\ OnlySeedGiven
  /\ Len(calls) >= 1
  /\ Len(heap.caller) = MaxLen
  /\ calls[1].train # <<>>
  /\ calls[1].test # <<>>
  /\ calls[1].train \o calls[1].test # heap.caller

\* The places <<fold, position>> of dataset_split that hold a row of the dataset.
RowPlaces ==
  {p \in UNION {{<<f, q>> : q \in 1 .. Len(dataset_split[f])} : f \in 1 .. Len(dataset_split)} :
     dataset_split[p[1]][p[2]] # Undefined}

\* C2: within one cross_validation_split call no row of the dataset is placed
\* twice, be it in two folds or twice in one fold.
FoldsDisjoint ==
  \A p, q \in RowPlaces :
    dataset_split[p[1]][p[2]].id = dataset_split[q[1]][q[2]].id => p = q

\* A split into at least two folds of at least one row each has returned.
FoldsDisjointWitness ==
  /\ args.fn = "cross_validation_split"
  /\ pc = "idle"
  /\ Len(calls) >= 1
  /\ Len(dataset_split) >= 2
  /\ \A f \in 1 .. Len(dataset_split) : Len(dataset_split[f]) >= 1

\* C3: with folds = k >= 1 every fold has exactly floor(n / k) rows, the call
\* returns k folds, and n mod k rows are left in the working copy.
FoldSizing ==
  (args.fn = "cross_validation_split" /\ args.folds >= 1) =>
    /\ \A f \in 1 .. Len(dataset_split) :
         Len(dataset_split[f]) = Len(heap.caller) \div args.folds
    /\ (pc = "idle" /\ Len(calls) >= 1) =>
         /\ Len(calls[Len(calls)].folds) = args.folds
         /\ Len(heap[ConcatCopyRef]) = Len(heap.caller) % args.folds

\* C4: calls of train_test_split, or of cross_validation_split, with the same
\* dataset, seed and options return the same output, element for element.
Deterministic ==
  args.fn \in {"train_test_split", "cross_validation_split"} =>
    \A c, d \in 1 .. Len(calls) : calls[c] = calls[d]

\* The same call has been made twice, and its draws consulted the engine.
DeterministicWitness ==
  /\ args.fn \in {"train_test_split", "cross_validation_split"}
  /\ Len(calls) = MaxCalls
  /\ pc = "idle"
  /\ engine # NewEngine(args.random_state)

\* The computed train count exceeds the dataset's length.
TrainCountTooLarge ==
  /\ args.fn = "train_test_split"
  /\ LET ts == TrainSize(args, Len(heap.caller))
     IN ts[1] > Len(heap.caller) * ts[2]

\* C5: a train count above the dataset's length, and folds <= 0, end in an
\* error: no such call returns a result.
ConfigErrorsRaised ==
  (TrainCountTooLarge \/ (args.fn = "cross_validation_split" /\ args.folds <= 0)) =>
    \A c \in 1 .. Len(calls) : calls[c].threw

\* C6: cross_validate_score with a truthy regression option ends in an error
\* ("not supported"): it returns no result.
RegressionNotSupported ==
  (args.fn = "cross_validate_score" /\ args.regression) =>
    \A c \in 1 .. Len(calls) : calls[c].threw

\* What the classifier is to see for fold f: train on the fold's columns, then
\* predict on the test matrix of the testing set.
ExpectedEvents(f) ==
  <<TrainEvent(MaybeMatrix(args.use_train_x_matrix, ColumnMatrixX(dataset_split[f])),
               MaybeMatrix(args.use_train_y_matrix, ColumnMatrixY(dataset_split[f]))),
    PredictEvent(ColumnMatrixX(args.testingset))>>

RECURSIVE ExpectedLog(_)
ExpectedLog(f) == IF f = 0 THEN <<>> ELSE ExpectedLog(f - 1) \o ExpectedEvents(f)

\* The accuracy, on the testing set, of a classifier trained on fold f alone.
ExpectedScore(f) ==
  GetAccuracy(PivotFirst(ColumnMatrixY(args.testingset)),
              ClassifierPredict(
                ClassifierTrain(Untrained,
                  MaybeMatrix(args.use_train_x_matrix, ColumnMatrixX(dataset_split[f])),
                  MaybeMatrix(args.use_train_y_matrix, ColumnMatrixY(dataset_split[f]))),
                ColumnMatrixX(args.testingset)))

\* The classifier has been trained on each fold so far and then asked to
\* predict the one test matrix, fold after fold, and the i-th result so far is
\* the accuracy of the i-th prediction.
TrainThenPredictPerFold ==
  /\ log = ExpectedLog(Len(prediction_accuracies))
  /\ \A f \in 1 .. Len(prediction_accuracies) :
       prediction_accuracies[f] = ExpectedScore(f)

\* C7: in classifier mode the classifier is trained on fold i and then asked
\* to predict the one test matrix, fold after fold; the i-th result is the
\* accuracy of that prediction, and exactly folds results are returned.
ScoresInFoldOrder ==
  (args.fn = "cross_validate_score" /\ ~args.regression) =>
    /\ pc = "map" => TrainThenPredictPerFold
    /\ (pc = "idle" /\ Len(calls) >= 1) =>
         /\ TrainThenPredictPerFold
         /\ calls[Len(calls)].scores = prediction_accuracies
         /\ Len(calls[Len(calls)].scores) = args.folds

\* C7 for a folds option of 1 or more: the same, where folds counts folds.
ScoresInFoldOrderFromOne ==
  args.folds >= 1 => ScoresInFoldOrder

\* C10: no step of train_test_split or of cross_validation_split changes the
\* caller's dataset.
DatasetUntouched == [][heap'.caller = heap.caller]_vars

\* A call has returned after removing rows from its working copy.
DatasetUntouchedWitness ==
  /\ args.fn \in {"train_test_split", "cross_validation_split"}
  /\ Len(calls) >= 1
  /\ Len(heap.caller) = MaxLen
  /\ Len(heap[ConcatCopyRef]) < MaxLen

\* The distinct cell values of the data.
CellValues == UNION {SeqRange(data[r]) : r \in 1 .. Len(data)}

\* The tokens of n values: "0", "1", ..., one per value.
Tokens(n) == {ToString(i) : i \in 0 .. n - 1}

\* C8: the valuesMap getTransactions returns maps every distinct cell value to
\* a token of its own, and that token back to the value.
ValuesMapBijective ==
  \A e \in 1 .. Len(encoded) :
    LET m == encoded[e].valuesMap
    IN /\ \A v \in CellValues :
            /\ v \in DOMAIN m
            /\ m[v] \in Tokens(Cardinality(CellValues))
            /\ m[v] \in DOMAIN m
            /\ m[m[v]] = v
       /\ \A v, w \in CellValues : m[v] = m[w] => v = w

\* C9: a call of assocationRuleLearning never throws, calls resolve or reject
\* at most once in all, and once its work has ended it has called exactly one
\* of them: reject when constructing, starting, mining or post-processing
\* failed, resolve otherwise.
SettlesOnce ==
  /\ ~thrown
  /\ resolve_calls + reject_calls <= 1
  /\ arl_pc = "done" =>
       /\ resolve_calls + reject_calls = 1
       /\ promise.state = IF failure = "none" THEN "resolved" ELSE "rejected"
       /\ (failure = "none") = (resolve_calls = 1)

\* A call whose post-processing threw has ended.
SettlesOnceWitness ==
  /\ arl_pc = "done"
  /\ failure = "postprocess"
  /\ promise.state = "rejected"
====
